---------------------------- MODULE Spec2Model ----------------------------
(***************************************************************************)
(* Model of the event-matching and probability-normalisation helpers of    *)
(* the sports notifier (src/main.py, src/providers.py).                    *)
(*                                                                         *)
(* The helpers are pure functions.  Each one is an operator computed the   *)
(* way the Python computes it, and each has a small specification whose    *)
(* initial states draw the call's arguments and whose action performs the  *)
(* call and stores what it returned.                                       *)
(*                                                                         *)
(* Representation                                                          *)
(*   - a Python str is a sequence of one-character strings;                *)
(*   - Python None in a name position is the value PyNone;                 *)
(*   - the two files define the same helpers, but norm differs: the        *)
(*     variable impl says which file's helpers the call runs.              *)
(***************************************************************************)
EXTENDS Integers, Sequences, FiniteSets, TLC

VARIABLES
    impl,        \* "main" or "providers": the file whose helpers run
    pc,          \* "call" before the helper ran, "done" after it returned;
                 \* in the stepwise specifications, the position in the code
    fn,          \* the helper this behaviour calls
    name,        \* norm / tennis_in_top10: the argument
    normalized,  \* norm: the returned string
    in_top10,    \* tennis_in_top10: the returned bool
    odds_list,   \* find_odds_for_match: the candidate entries, in feed order
    team_a,      \* find_odds_for_match: first target participant
    team_b,      \* find_odds_for_match: second target participant
    target_dt,   \* find_odds_for_match: target time (or no time)
    matched,     \* find_odds_for_match: 0 for None, else the 1-based position
                 \* in odds_list of the entry object returned
    odds_event,  \* odds_to_probs: the entry
    probs,       \* odds_to_probs: the returned mapping, name -> tenths of a percent
    env,         \* the API credentials that are configured (module globals)
    sport_key,   \* fetch_odds: the argument
    http,        \* what the provider does with the request being made
    odds,        \* fetch_odds: the returned value
    log,         \* the log records written, oldest first
    raised,      \* an exception left the function being run
    payload,     \* the results provider's listing being processed
    res,         \* the match records built so far
    kickoff_dt,  \* fetch_football_data_matches: the local variable kickoff_dt
    lookups,     \* the find_odds_for_match calls made, in order
    calls,       \* requests sent in this category: [results, odds]
    sections,    \* build_report_text: what each category's function returned
    out,         \* build_report_text: the lines appended so far
    text,        \* chunk_message: the argument
    start,       \* chunk_message: the local variable start
    parts        \* chunk_message: the list parts

\* The variables of the pure helpers of the first part of the module.
helperVars == <<name, normalized, in_top10, odds_list, team_a, team_b,
                target_dt, matched, odds_event, probs>>

\* The variables of the fetching, batch and report functions.
pipelineVars == <<env, sport_key, http, odds, log, raised, payload, res,
                  kickoff_dt, lookups, calls, sections, out, text, start, parts>>

vars == <<impl, pc, fn, helperVars, pipelineVars>>

Impls == {"main", "providers"}

-----------------------------------------------------------------------------
(* Python str helpers                                                      *)

\* Python None where a str is expected.
PyNone == <<"<None>">>

\* Python truthiness of an optional str: None and "" are falsy.
Truthy(s) == s # PyNone /\ s # <<>>

UpperChars ==
    <<"A","B","C","D","E","F","G","H","I","J","K","L","M","N","O","P","Q","R",
      "S","T","U","V","W","X","Y","Z","Á","É","Í","Ó","Ú">>

LowerChars ==
    <<"a","b","c","d","e","f","g","h","i","j","k","l","m","n","o","p","q","r",
      "s","t","u","v","w","x","y","z","á","é","í","ó","ú">>

\* str.lower() on one character.
LowerChar(c) ==
    IF \E i \in DOMAIN UpperChars : UpperChars[i] = c
    THEN LowerChars[CHOOSE i \in DOMAIN UpperChars : UpperChars[i] = c]
    ELSE c

\* str.lower()
Lower(s) == [i \in DOMAIN s |-> LowerChar(s[i])]

\* The chained .replace("á","a")...replace("ú","u") of providers.norm, on one
\* character (every replacement is one character for one character).
UnaccentChar(c) ==
    CASE c = "á" -> "a"
      [] c = "é" -> "e"
      [] c = "í" -> "i"
      [] c = "ó" -> "o"
      [] c = "ú" -> "u"
      [] OTHER   -> c

Unaccent(s) == [i \in DOMAIN s |-> UnaccentChar(s[i])]

Whitespace == {" "}

\* str.strip(): drops leading and trailing whitespace, keeps inner whitespace.
Strip(s) ==
    LET keep == {i \in DOMAIN s : s[i] \notin Whitespace}
    IN  IF keep = {} THEN <<>>
        ELSE LET lo == CHOOSE i \in keep : \A j \in keep : i <= j
                 hi == CHOOSE i \in keep : \A j \in keep : j <= i
             IN  SubSeq(s, lo, hi)

\* Python "p in n" on strings: p occurs in n as a contiguous run ("" is in
\* every string).
Contains(n, p) ==
    \E i \in 0..(Len(n) - Len(p)) : SubSeq(n, i + 1, i + Len(p)) = p

-----------------------------------------------------------------------------
(* norm                                                                    *)

\* main.norm: lower-case and strip.
norm_main(s) == IF ~Truthy(s) THEN <<>> ELSE Strip(Lower(s))

\* providers.norm: lower-case, replace the five accented vowels, strip.
norm_providers(s) == IF ~Truthy(s) THEN <<>> ELSE Strip(Unaccent(Lower(s)))

\* The norm of the file that is running.
norm(s) == IF impl = "main" THEN norm_main(s) ELSE norm_providers(s)

-----------------------------------------------------------------------------
(* tennis_in_top10                                                         *)

TOP10_ATP ==
    { <<"d","j","o","k","o","v","i","c">>,
      <<"a","l","c","a","r","a","z">>,
      <<"s","i","n","n","e","r">>,
      <<"z","v","e","r","e","v">>,
      <<"m","e","d","v","e","d","e","v">>,
      <<"r","u","n","e">>,
      <<"r","u","b","l","e","v">>,
      <<"r","u","u","d">>,
      <<"t","s","i","t","s","i","p","a","s">>,
      <<"h","u","r","k","a","c","z">> }

\* A roster test that compares whole names instead of looking for the token
\* inside the name.
tennis_in_top10_whole_name(nm) ==
    LET n == norm(nm)
    IN  \E p \in TOP10_ATP : n = p

\* The loop "for p in TOP10_ATP: if p in n: return True" followed by
\* "return False": True exactly when some roster token passes the test.
tennis_in_top10(nm) ==
    LET n == norm(nm)
    IN  \E p \in TOP10_ATP : Contains(n, p)

-----------------------------------------------------------------------------
(* find_odds_for_match                                                     *)

(* An odds entry is a record [home_team, away_team, commence_time].  A     *)
(* time is one of                                                          *)
(*   [kind |-> "none"]             no value (None, key absent, "")         *)
(*   [kind |-> "bad"]              a commence_time string that             *)
(*                                 datetime.fromisoformat rejects          *)
(*   [kind |-> "time", secs |-> n] an instant, n seconds on a common axis  *)
(* Target times are timezone-aware datetimes (every caller builds them     *)
(* with astimezone), so the subtraction never fails for them.              *)
NoTime     == [kind |-> "none"]
BadTime    == [kind |-> "bad"]
TimeAt(n)  == [kind |-> "time", secs |-> n]

Abs(x) == IF x < 0 THEN -x ELSE x

\* A name condition that expects the targets in the entry's own order.
NameTestSameOrder(ta, tb, home, away) ==
    /\ ta # <<>> /\ Contains(home, ta)
    /\ tb # <<>> /\ Contains(away, tb)

\* The name condition of the scan:
\* (ta and (ta in home or ta in away)) and (tb and (tb in home or tb in away))
NameTest(ta, tb, home, away) ==
    /\ ta # <<>> /\ (Contains(home, ta) \/ Contains(away, ta))
    /\ tb # <<>> /\ (Contains(home, tb) \/ Contains(away, tb))

\* A time condition that already rejects a distance of exactly 24 hours.
TimeSkipsFrom24h(commence, target) ==
    /\ commence.kind = "time"
    /\ target.kind = "time"
    /\ Abs(commence.secs - target.secs) >= 60 * 60 * 24

\* A time condition that rejects an entry without commence_time whenever a
\* target time is given.
TimeSkipsWithoutCommence(commence, target) ==
    /\ target.kind = "time"
    /\ \/ commence.kind = "none"
       \/ /\ commence.kind = "time"
          /\ Abs(commence.secs - target.secs) > 60 * 60 * 24

\* The try block of the scan takes "continue": commence and target_dt are
\* both truthy, commence parses, and the two instants are more than
\* 60*60*24 seconds apart.  A commence that does not parse raises inside the
\* try, the except passes, and the entry is returned.
TimeSkips(commence, target) ==
    /\ commence.kind = "time"
    /\ target.kind = "time"
    /\ Abs(commence.secs - target.secs) > 60 * 60 * 24

\* Whether the loop body returns entry ev.
Returns(ev, ta, tb, target) ==
    /\ NameTest(ta, tb, norm(ev.home_team), norm(ev.away_team))
    /\ ~TimeSkips(ev.commence_time, target)

\* A scan that gives up at the first name match that is too far in time.
RECURSIVE ScanStopsAtFar(_, _, _, _, _)
ScanStopsAtFar(list, ta, tb, target, i) ==
    IF i > Len(list) THEN 0
    ELSE IF NameTest(ta, tb, norm(list[i].home_team), norm(list[i].away_team))
         THEN IF TimeSkips(list[i].commence_time, target) THEN 0 ELSE i
         ELSE ScanStopsAtFar(list, ta, tb, target, i + 1)

\* "for ev in odds_list" from position i on: the position of the first entry
\* the body returns, 0 when the loop ends without returning (return None).
RECURSIVE Scan(_, _, _, _, _)
Scan(list, ta, tb, target, i) ==
    IF i > Len(list) THEN 0
    ELSE IF Returns(list[i], ta, tb, target) THEN i
         ELSE Scan(list, ta, tb, target, i + 1)

\* find_odds_for_match(odds_list, team_a, team_b, target_dt): 0 for None,
\* else the position of the returned entry.
find_odds_for_match(list, a, b, target) ==
    IF list = <<>> THEN 0
    ELSE Scan(list, norm(a), norm(b), target, 1)

-----------------------------------------------------------------------------
(* odds_to_probs                                                           *)

(* An entry is NoEvent (None or an empty dict, both falsy) or a record     *)
(* [kind |-> "event", bookmakers |-> <<...>>].  A bookmaker is a record     *)
(* [markets |-> <<...>>] or BadBookmaker, a value of the wrong type on      *)
(* which bm.get raises.  A market is [key, outcomes]; an outcome is         *)
(* [name, price] or, when the feed gives no price, [name].                  *)
(*                                                                         *)
(* A decimal price is an integer count of half units (3 is 1.5, 4 is 2.0). *)
(* A returned percentage is an integer count of tenths (667 is 66.7).  The *)
(* float expression round(probs[k] / s * 100, 1) is computed exactly, as   *)
(* the nearest tenth of 100 * (1/price_k) / (sum of 1/price).              *)
NoEvent      == [kind |-> "none"]
BadBookmaker == [kind |-> "bad"]

\* "if price and price > 0"
ValidPrice(o) == "price" \in DOMAIN o /\ o.price # 0 /\ o.price > 0

\* The keys of the dict probs after the loop over the outcomes.
ProbKeys(outcomes) ==
    {outcomes[i].name : i \in {j \in DOMAIN outcomes : ValidPrice(outcomes[j])}}

\* The price behind probs[k]: a later outcome of the same name overwrites an
\* earlier one.
PriceOfKey(outcomes, k) ==
    LET idx  == {j \in DOMAIN outcomes :
                    ValidPrice(outcomes[j]) /\ outcomes[j].name = k}
        last == CHOOSE j \in idx : \A h \in idx : h <= j
    IN  outcomes[last].price

RECURSIVE ProductOver(_, _)
ProductOver(outcomes, keys) ==
    IF keys = {} THEN 1
    ELSE LET k == CHOOSE x \in keys : TRUE
         IN  PriceOfKey(outcomes, k) * ProductOver(outcomes, keys \ {k})

\* 1/price_k over the common denominator, the product of the prices of all
\* keys.
Weight(outcomes, k) ==
    ProductOver(outcomes, ProbKeys(outcomes) \ {k})

RECURSIVE WeightSum(_, _)
WeightSum(outcomes, keys) ==
    IF keys = {} THEN 0
    ELSE LET k == CHOOSE x \in keys : TRUE
         IN  Weight(outcomes, k) + WeightSum(outcomes, keys \ {k})

\* n/d cut to a whole number of tenths.
TruncateTenths(n, d) == n \div d

\* round(x, 1) for x = n/d tenths: the nearest whole number, the even one
\* when two are equally near.
RoundTenths(n, d) ==
    LET q == n \div d
        r == n % d
    IN  IF 2 * r < d THEN q
        ELSE IF 2 * r > d THEN q + 1
        ELSE IF q % 2 = 0 THEN q ELSE q + 1

\* The raw implied probability 1/price as a percentage, not divided by s
\* (the price is in half units).
RawPercent(outcomes, k) == RoundTenths(2000, PriceOfKey(outcomes, k))

\* round(probs[k] / s * 100, 1), in tenths.
NormalizedPercent(outcomes, k) ==
    RoundTenths(1000 * Weight(outcomes, k),
                WeightSum(outcomes, ProbKeys(outcomes)))

\* "s > 0": some outcome entered probs.
SumPositive(outcomes) == ProbKeys(outcomes) # {}

\* The dict returned for a head-to-head market with s > 0.
MarketProbs(outcomes) ==
    [k \in ProbKeys(outcomes) |-> NormalizedPercent(outcomes, k)]

\* The two loops from market j of bookmaker i on.  Any exception leaves
\* through "except Exception" to "return {}".
RECURSIVE ProbsFrom(_, _, _)
ProbsFrom(bms, i, j) ==
    IF i > Len(bms) THEN <<>>
    ELSE IF bms[i] = BadBookmaker THEN <<>>
    ELSE IF j > Len(bms[i].markets) THEN ProbsFrom(bms, i + 1, 1)
    ELSE LET market == bms[i].markets[j]
         IN  IF market.key = "h2h" /\ SumPositive(market.outcomes)
             THEN MarketProbs(market.outcomes)
             ELSE ProbsFrom(bms, i, j + 1)

\* odds_to_probs(odds_event)
odds_to_probs(ev) ==
    IF ev = NoEvent THEN <<>>
    ELSE ProbsFrom(ev.bookmakers, 1, 1)

-----------------------------------------------------------------------------
(* Arguments of the norm / tennis_in_top10 calls                           *)

\* Longest name of the exhaustive short-name pool.
MaxNameLen == 3

\* Most blanks put before and after a roster-style name.
MaxPad == 1

NormAlphabet == {"a", "A", "á", "Á", ".", " "}

\* Every string over NormAlphabet of length at most MaxNameLen.
ShortNames == UNION {[1..k -> NormAlphabet] : k \in 0..MaxNameLen}

Pads == {[i \in 1..k |-> " "] : k \in 0..MaxPad}

CarlosUpperCore ==
    <<"C","A","R","L","O","S"," ","A","L","C","A","R","A","Z">>

NamePrefixes == {<<>>, <<"J","."," ">>, <<"J"," ">>, <<"B">>}

NameCores ==
    { CarlosUpperCore, <<"s","i","n","n","e","r">>, <<"S","i","n","n","e","r">>, <<"S","I","N","N","E","R">>,
      <<"S","í","n","n","e","r">>, <<"S","i","n",".","n","e","r">>,
      <<"A","l","c","a","r","a","z">>, <<"A","L","C","A","R","Á","Z">>,
      <<"r","u","n","e">>, <<"N","a","d","a","l">>,
      <<"C","ó","r","d","o","b","a">>, <<"C","o","r","d","o","b","a">>,
      <<>> }

NameSuffixes == {<<>>, <<".">>}

\* Names as the feeds spell them: optional initial, a surname in some
\* spelling, padding blanks.
RosterNames ==
    {l \o pre \o core \o suf \o r :
        l \in Pads, pre \in NamePrefixes, core \in NameCores,
        suf \in NameSuffixes, r \in Pads}

NameInputs == ShortNames \cup RosterNames \cup {PyNone}

-----------------------------------------------------------------------------
(* Specification of the norm / tennis_in_top10 calls                       *)

\* The variables of the other helpers, which these calls do not touch.
FindIdle  == odds_list = <<>> /\ team_a = <<>> /\ team_b = <<>>
             /\ target_dt = [kind |-> "none"] /\ matched = 0
ProbsIdle == odds_event = [kind |-> "none"] /\ probs = <<>>
NameIdle  == name = <<>> /\ normalized = <<>> /\ in_top10 = FALSE

\* The variables of the functions that these calls are not part of.
FetchIdle  == env = {} /\ sport_key = "" /\ http = [kind |-> "none"]
              /\ odds = [type |-> "unset"] /\ log = <<>> /\ raised = FALSE
BatchIdle  == payload = <<>> /\ res = <<>> /\ kickoff_dt = [kind |-> "unbound"]
              /\ lookups = <<>> /\ calls = [results |-> 0, odds |-> 0]
ReportIdle == sections = <<>> /\ out = <<>>
ChunkIdle  == text = [len |-> 0, newlines |-> {}] /\ start = 0 /\ parts = <<>>
PipelineIdle == FetchIdle /\ BatchIdle /\ ReportIdle /\ ChunkIdle

InitNorm ==
    /\ impl \in Impls
    /\ pc = "call"
    /\ fn = "none"
    /\ name \in NameInputs
    /\ normalized = <<>>
    /\ in_top10 = FALSE
    /\ FindIdle
    /\ ProbsIdle
    /\ PipelineIdle

\* normalized = norm(name)
CallNorm ==
    /\ pc = "call"
    /\ pc' = "done"
    /\ fn' = "norm"
    /\ normalized' = norm(name)
    /\ UNCHANGED <<impl, name, in_top10, odds_list, team_a, team_b, target_dt,
                   matched, odds_event, probs>>
    /\ UNCHANGED pipelineVars

\* in_top10 = tennis_in_top10(name)
CallTennisInTop10 ==
    /\ pc = "call"
    /\ pc' = "done"
    /\ fn' = "tennis_in_top10"
    /\ in_top10' = tennis_in_top10(name)
    /\ UNCHANGED <<impl, name, normalized, odds_list, team_a, team_b,
                   target_dt, matched, odds_event, probs>>
    /\ UNCHANGED pipelineVars

NextNorm == CallNorm \/ CallTennisInTop10

SpecNorm == InitNorm /\ [][NextNorm]_vars

-----------------------------------------------------------------------------
(* Arguments and specification of the find_odds_for_match calls            *)

\* Longest candidate list.
MaxCands == 2

Niger   == <<"N","i","g","e","r">>
Nigeria == <<"N","i","g","e","r","i","a">>
Ghana   == <<"G","h","a","n","a">>

\* Participant pairs as the odds feed lists them: plain, in the other order
\* with upper case, an accent and a trailing blank, and a pair in which one
\* name is part of the other.
CandPairs ==
    { <<Nigeria, Ghana>>,
      <<<<"G","H","A","N","A"," ">>, <<"N","í","g","e","r">>>>,
      <<Niger, Nigeria>> }

\* The second instant is more than 24 hours after the first.
CommenceTimes == {NoTime, BadTime, TimeAt(0), TimeAt(100000)}

Cands ==
    {[home_team |-> pr[1], away_team |-> pr[2], commence_time |-> c] :
        pr \in CandPairs, c \in CommenceTimes}

CandLists == UNION {[1..k -> Cands] : k \in 0..MaxCands}

TargetNames == {<<>>, Niger, Nigeria, <<"g","h","a","n","a">>}

\* 2 hours, exactly 24 hours, 24 hours and a second, 25 hours after instant 0.
TargetTimes ==
    {NoTime, TimeAt(7200), TimeAt(86400), TimeAt(86401), TimeAt(90000)}

InitFind ==
    /\ impl \in Impls
    /\ pc = "call"
    /\ fn = "none"
    /\ odds_list \in CandLists
    /\ team_a \in TargetNames
    /\ team_b \in TargetNames
    /\ target_dt \in TargetTimes
    /\ matched = 0
    /\ NameIdle
    /\ ProbsIdle
    /\ PipelineIdle

\* matched = find_odds_for_match(odds_list, team_a, team_b, target_dt)
CallFind ==
    /\ pc = "call"
    /\ pc' = "done"
    /\ fn' = "find_odds_for_match"
    /\ matched' = find_odds_for_match(odds_list, team_a, team_b, target_dt)
    /\ UNCHANGED <<impl, name, normalized, in_top10, odds_list, team_a,
                   team_b, target_dt, odds_event, probs>>
    /\ UNCHANGED pipelineVars

NextFind == CallFind

SpecFind == InitFind /\ [][NextFind]_vars

-----------------------------------------------------------------------------
(* Arguments and specifications of the odds_to_probs calls                 *)

\* Most outcomes in a head-to-head market.
MaxOutcomes == 5

\* Most bookmakers in an entry, most markets of a bookmaker.
MaxBookmakers == 2
MaxMarkets == 2

OutcomeNames ==
    <<"Home", "Away", "Draw", "Fourth", "Fifth", "Sixth", "Seventh">>

\* What the feed gives as the price of an outcome: nothing, the sentinel 0,
\* a negative number, or 1.5, 2.0, 3.0 (in half units).
PriceChoices ==
    {[has |-> FALSE]} \cup {[has |-> TRUE, price |-> x] : x \in {-3, 0, 3, 4, 6}}

OutcomeOf(i, c) ==
    IF c.has THEN [name |-> OutcomeNames[i], price |-> c.price]
    ELSE [name |-> OutcomeNames[i]]

\* Outcome lists of k differently named outcomes.
OutcomeLists(k) ==
    {[i \in 1..k |-> OutcomeOf(i, cs[i])] : cs \in [1..k -> PriceChoices]}

\* No exact probability lies halfway between two tenths.  There the float
\* result depends on the representation error of the operands; everywhere
\* else it is the nearest tenth.
TieFree(outcomes) ==
    \A k \in ProbKeys(outcomes) :
        2 * ((1000 * Weight(outcomes, k))
                % WeightSum(outcomes, ProbKeys(outcomes)))
            # WeightSum(outcomes, ProbKeys(outcomes))

\* An entry with one bookmaker quoting one head-to-head market.
H2HEvent(outcomes) ==
    [kind |-> "event",
     bookmakers |-> <<[markets |-> <<[key |-> "h2h", outcomes |-> outcomes]>>]>>]

\* odds_to_probs reads the same in both files and does not call norm: one
\* value of impl stands for both.
InitProbs ==
    /\ impl = "providers"
    /\ pc = "call"
    /\ fn = "none"
    /\ \E k \in 0..MaxOutcomes : \E os \in OutcomeLists(k) :
          TieFree(os) /\ odds_event = H2HEvent(os)
    /\ probs = <<>>
    /\ NameIdle
    /\ FindIdle
    /\ PipelineIdle

\* probs = odds_to_probs(odds_event)
CallProbs ==
    /\ pc = "call"
    /\ pc' = "done"
    /\ fn' = "odds_to_probs"
    /\ probs' = odds_to_probs(odds_event)
    /\ UNCHANGED <<impl, name, normalized, in_top10, odds_list, team_a,
                   team_b, target_dt, matched, odds_event>>
    /\ UNCHANGED pipelineVars

NextProbs == CallProbs

SpecProbs == InitProbs /\ [][NextProbs]_vars

\* Outcome lists of the markets of the scan: no usable price, 2.0 / 2.0,
\* and 1.5 / 3.0.
ZeroSumOutcomes == <<[name |-> "Home", price |-> 0], [name |-> "Away"]>>
EvenOutcomes    == <<[name |-> "Home", price |-> 4], [name |-> "Away", price |-> 4]>>
SkewOutcomes    == <<[name |-> "Home", price |-> 3], [name |-> "Away", price |-> 6]>>

ScanMarkets ==
    { [key |-> "spreads", outcomes |-> EvenOutcomes],
      [key |-> "h2h", outcomes |-> ZeroSumOutcomes],
      [key |-> "h2h", outcomes |-> EvenOutcomes],
      [key |-> "h2h", outcomes |-> SkewOutcomes] }

ScanBookmakers ==
    {BadBookmaker}
        \cup {[markets |-> ms] :
                 ms \in UNION {[1..k -> ScanMarkets] : k \in 0..MaxMarkets}}

ScanEvents ==
    {NoEvent}
        \cup {[kind |-> "event", bookmakers |-> bms] :
                 bms \in UNION {[1..k -> ScanBookmakers] : k \in 0..MaxBookmakers}}

InitScan ==
    /\ impl \in Impls
    /\ pc = "call"
    /\ fn = "none"
    /\ odds_event \in ScanEvents
    /\ probs = <<>>
    /\ NameIdle
    /\ FindIdle
    /\ PipelineIdle

NextScan == CallProbs

SpecScan == InitScan /\ [][NextScan]_vars

-----------------------------------------------------------------------------
(* Claims about norm and tennis_in_top10                                   *)

JDotSinner    == <<"J","."," ","S","i","n","n","e","r">>
JSinner       == <<"J"," ","S","i","n","n","e","r">>
CordobaAccent == <<"C","ó","r","d","o","b","a">>
CordobaPlain  == <<"C","o","r","d","o","b","a">>
NovakDjokovic == <<"N","o","v","a","k"," ","D","j","o","k","o","v","i","c">>
CarlosUpper   == <<"C","A","R","L","O","S"," ","A","L","C","A","R","A","Z">>
CarlosLower   == <<"c","a","r","l","o","s"," ","a","l","c","a","r","a","z">>

\* The string without its periods.
DropPeriods(s) == SelectSeq(s, LAMBDA c : c # ".")

\* The string with the accented vowels replaced by the plain ones.
PlainVowelChar(c) ==
    CASE c \in {"á", "Á"} -> IF c = "á" THEN "a" ELSE "A"
      [] c \in {"é", "É"} -> IF c = "é" THEN "e" ELSE "E"
      [] c \in {"í", "Í"} -> IF c = "í" THEN "i" ELSE "I"
      [] c \in {"ó", "Ó"} -> IF c = "ó" THEN "o" ELSE "O"
      [] c \in {"ú", "Ú"} -> IF c = "ú" THEN "u" ELSE "U"
      [] OTHER -> c

PlainVowels(s) == [i \in DOMAIN s |-> PlainVowelChar(s[i])]

\* C9: norm lower-cases, strips surrounding whitespace, removes periods and
\* maps the accented vowels to the plain ones: a name and the same name in
\* lower case, without its periods, or without its accents normalize to the
\* same string, the result carries no surrounding whitespace,
\* norm("J. Sinner") = norm("J Sinner"), norm("Córdoba") = norm("Cordoba"),
\* and an empty or absent name normalizes to the empty string.
C9_NormCanonical ==
    (pc = "done" /\ fn = "norm") =>
        /\ normalized = norm(Lower(name))
        /\ normalized = Strip(normalized)
        /\ normalized = norm(DropPeriods(name))
        /\ normalized = norm(PlainVowels(name))
        /\ (name = CarlosUpper => normalized = norm(CarlosLower))
        /\ (name = JDotSinner => normalized = norm(JSinner))
        /\ (name = CordobaAccent => normalized = norm(CordobaPlain))
        /\ (name \in {<<>>, PyNone} => normalized = <<>>)

\* Token p occupies positions i+1 .. i+Len(p) of n.
TokenAt(n, p, i) ==
    /\ i + Len(p) <= Len(n)
    /\ \A k \in 1..Len(p) : n[i + k] = p[k]

\* C10: tennis_in_top10(name) is true iff the normalized name contains at
\* least one token of the roster as a substring; "J. Sinner" is a member,
\* and the token "alcaraz" is not found in "Novak Djokovic".
C10_RosterMembership ==
    (pc = "done" /\ fn = "tennis_in_top10") =>
        /\ in_top10 = (\E p \in TOP10_ATP :
                          \E i \in 0..Len(norm(name)) : TokenAt(norm(name), p, i))
        /\ tennis_in_top10(JDotSinner)
        /\ ~ \E i \in 0..Len(norm(NovakDjokovic)) :
                 TokenAt(norm(NovakDjokovic), <<"a","l","c","a","r","a","z">>, i)

\* C10 witness: "J. Sinner" was tested and found to be a member.
C10_Witness ==
    pc = "done" /\ fn = "tennis_in_top10" /\ name = JDotSinner /\ in_top10

-----------------------------------------------------------------------------
(* Claims about find_odds_for_match                                        *)

FindDone == pc = "done" /\ fn = "find_odds_for_match"

\* Entry i passes the name test for the call's targets.
NameMatches(i) ==
    NameTest(norm(team_a), norm(team_b),
             norm(odds_list[i].home_team), norm(odds_list[i].away_team))

\* The time test applies to entry i: a target time and a commence time.
TimeApplies(i) ==
    target_dt.kind = "time" /\ odds_list[i].commence_time.kind = "time"

\* Seconds between entry i and the target.
Distance(i) == Abs(odds_list[i].commence_time.secs - target_dt.secs)

\* Entry i passes every filter that applies to it.
Qualifies(i) ==
    NameMatches(i) /\ (TimeApplies(i) => Distance(i) <= 86400)

\* C1: the call returns the first candidate, in list order, that passes the
\* name test and, when it applies, the time test; it returns None when no
\* candidate does or the list is empty.
C1_FirstQualifying ==
    FindDone =>
        /\ matched \in 0..Len(odds_list)
        /\ matched # 0 =>
              /\ Qualifies(matched)
              /\ \A j \in 1..(matched - 1) : ~Qualifies(j)
        /\ matched = 0 => \A j \in 1..Len(odds_list) : ~Qualifies(j)
        /\ odds_list = <<>> => matched = 0

\* C1 witness: the first entry matched the names but was too far in time,
\* and the scan went on to return the second.
C1_Witness ==
    /\ FindDone
    /\ matched = 2
    /\ NameMatches(1) /\ TimeApplies(1) /\ Distance(1) > 86400

\* C2: the name test holds for an entry iff both targets are non-empty after
\* normalization and one is a substring of one participant field while the
\* other is a substring of the other field.
C2_PairTest ==
    FindDone =>
        \A i \in 1..Len(odds_list) :
            LET ta   == norm(team_a)
                tb   == norm(team_b)
                home == norm(odds_list[i].home_team)
                away == norm(odds_list[i].away_team)
            IN  NameTest(ta, tb, home, away) <=>
                    /\ ta # <<>> /\ tb # <<>>
                    /\ \/ Contains(home, ta) /\ Contains(away, tb)
                       \/ Contains(away, ta) /\ Contains(home, tb)

\* C3: with a target time, a returned entry that has a commence time is at
\* most 24 hours from the target; a name-matching entry at most 24 hours
\* away (exactly 24 hours included) is accepted, so the result is that entry
\* or an earlier one; a single candidate at T is returned for target T+2h
\* and not for target T+25h.
C3_Within24h ==
    (FindDone /\ target_dt.kind = "time") =>
        /\ (matched # 0 /\ TimeApplies(matched)) => Distance(matched) <= 86400
        /\ \A i \in 1..Len(odds_list) :
              (NameMatches(i) /\ TimeApplies(i) /\ Distance(i) <= 86400)
                  => matched \in 1..i
        /\ (Len(odds_list) = 1 /\ NameMatches(1)
               /\ odds_list[1].commence_time = TimeAt(0)) =>
              /\ target_dt = TimeAt(7200) => matched = 1
              /\ target_dt = TimeAt(90000) => matched = 0

\* C3 witness: the returned entry is exactly 24 hours from the target.
C3_Witness ==
    /\ FindDone
    /\ matched # 0
    /\ TimeApplies(matched)
    /\ Distance(matched) = 86400

\* C4: the result does not depend on the order of the two targets.
C4_TargetOrder ==
    FindDone =>
        matched = find_odds_for_match(odds_list, team_b, team_a, target_dt)

\* C4 witness: an entry was returned whose home field holds the second
\* target and whose away field holds the first, and not the other way round.
C4_Witness ==
    /\ FindDone
    /\ matched # 0
    /\ LET home == norm(odds_list[matched].home_team)
           away == norm(odds_list[matched].away_team)
       IN  /\ Contains(home, norm(team_b)) /\ Contains(away, norm(team_a))
           /\ ~Contains(home, norm(team_a))

\* C5: without a target time, or for an entry without commence time, the
\* name test alone decides: such a name-matching entry is returned unless an
\* earlier one is; with no target time the result is the first entry that
\* passes the name test.
C5_TimeFilterOff ==
    FindDone =>
        /\ \A i \in 1..Len(odds_list) :
              (NameMatches(i)
                  /\ (target_dt = NoTime \/ odds_list[i].commence_time = NoTime))
                  => matched \in 1..i
        /\ target_dt = NoTime =>
              /\ matched # 0 =>
                    NameMatches(matched)
                        /\ \A j \in 1..(matched - 1) : ~NameMatches(j)
              /\ matched = 0 => \A j \in 1..Len(odds_list) : ~NameMatches(j)

\* C5 witness: a target time was given and the returned entry has no
\* commence time.
C5_Witness ==
    /\ FindDone
    /\ target_dt.kind = "time"
    /\ matched # 0
    /\ odds_list[matched].commence_time = NoTime

-----------------------------------------------------------------------------
(* Claims about odds_to_probs                                              *)

ProbsDone == pc = "done" /\ fn = "odds_to_probs"

\* The outcomes of the first head-to-head market of the entry, in the order
\* bookmakers are listed and, within a bookmaker, markets are listed; <<>>
\* when there is none.
RECURSIVE FirstH2HFrom(_, _, _)
FirstH2HFrom(bms, i, j) ==
    IF i > Len(bms) THEN [found |-> FALSE]
    ELSE IF j > Len(bms[i].markets) THEN FirstH2HFrom(bms, i + 1, 1)
    ELSE IF bms[i].markets[j].key = "h2h"
         THEN [found |-> TRUE, outcomes |-> bms[i].markets[j].outcomes]
         ELSE FirstH2HFrom(bms, i, j + 1)

\* The positions of the outcomes with a price above 0.
Priced(os) == {i \in DOMAIN os : "price" \in DOMAIN os[i] /\ os[i].price > 0}

RECURSIVE PriceProduct(_, _)
PriceProduct(os, idx) ==
    IF idx = {} THEN 1
    ELSE LET i == CHOOSE x \in idx : TRUE
         IN  os[i].price * PriceProduct(os, idx \ {i})

\* 1/price of outcome i as a multiple of 1/(product of all included prices).
Inverse(os, i) == PriceProduct(os, Priced(os) \ {i})

RECURSIVE InverseSum(_, _)
InverseSum(os, idx) ==
    IF idx = {} THEN 0
    ELSE LET i == CHOOSE x \in idx : TRUE
         IN  Inverse(os, i) + InverseSum(os, idx \ {i})

RECURSIVE SumOfValues(_, _)
SumOfValues(f, keys) ==
    IF keys = {} THEN 0
    ELSE LET k == CHOOSE x \in keys : TRUE
         IN  f[k] + SumOfValues(f, keys \ {k})

\* The outcomes of the single market of an entry of SpecProbs.
TheOutcomes == odds_event.bookmakers[1].markets[1].outcomes

\* C6: the keys of the mapping are exactly the outcomes with a price above
\* 0, and each value is (1/price) / (sum of 1/price over those outcomes),
\* times 100, rounded to one decimal place (no tenth is nearer); prices
\* 2.0/2.0 give 50.0/50.0, 0/2.0 give Away: 100.0 alone, 1.5/3.0 give
\* 66.7/33.3.
C6_KeysAndValues ==
    ProbsDone =>
        LET os == TheOutcomes
            S  == InverseSum(os, Priced(os))
        IN  /\ DOMAIN probs = {os[i].name : i \in Priced(os)}
            /\ \A i \in Priced(os) :
                  2 * Abs(probs[os[i].name] * S - 1000 * Inverse(os, i)) <= S
            /\ os = EvenOutcomes => probs = [k \in {"Home", "Away"} |-> 500]
            /\ os = <<[name |-> "Home", price |-> 0],
                      [name |-> "Away", price |-> 4]>>
                  => probs = [k \in {"Away"} |-> 1000]
            /\ os = SkewOutcomes
                  => probs = [k \in {"Home", "Away"} |->
                                 IF k = "Home" THEN 667 ELSE 333]

\* C6 witness: a market with an unpriced, a zero, a negative and two
\* differently priced outcomes was converted.
C6_Witness ==
    /\ ProbsDone
    /\ Cardinality(Priced(TheOutcomes)) = 2
    /\ Len(TheOutcomes) = 5
    /\ \E i, j, h \in DOMAIN TheOutcomes :
          /\ "price" \notin DOMAIN TheOutcomes[i]
          /\ "price" \in DOMAIN TheOutcomes[j] /\ TheOutcomes[j].price = 0
          /\ "price" \in DOMAIN TheOutcomes[h] /\ TheOutcomes[h].price < 0
    /\ \E k \in DOMAIN probs : probs[k] = 667

\* C7 as stated: for any number of outcomes the mapping is empty or its
\* values sum to 100.0 within 0.1.
C7_SumWithinTolerance ==
    ProbsDone =>
        \/ probs = <<>>
        \/ Abs(SumOfValues(probs, DOMAIN probs) - 1000) <= 1

\* C7 amended: when at most three outcomes have a price above 0, the mapping
\* is empty or its values sum to 100.0 within 0.1.
C7_SumWithinToleranceUpTo3 ==
    (ProbsDone /\ Cardinality(DOMAIN probs) <= 3) =>
        \/ probs = <<>>
        \/ Abs(SumOfValues(probs, DOMAIN probs) - 1000) <= 1

\* C7 witness: three priced outcomes whose rounded values sum to 99.9.
C7_Witness ==
    /\ ProbsDone
    /\ Cardinality(DOMAIN probs) = 3
    /\ SumOfValues(probs, DOMAIN probs) = 999

\* C8: the outcomes come from the first head-to-head market only: when its
\* sum of implied probabilities is zero the result is empty and no later
\* market or bookmaker is consulted; without any head-to-head market the
\* result is empty.  (Stated for entries all of whose bookmakers are
\* well-formed.)
C8_FirstH2HOnly ==
    (ProbsDone /\ odds_event # NoEvent
        /\ \A i \in DOMAIN odds_event.bookmakers :
              odds_event.bookmakers[i] # BadBookmaker) =>
        LET first == FirstH2HFrom(odds_event.bookmakers, 1, 1)
        IN  IF ~first.found THEN probs = <<>>
            ELSE IF Priced(first.outcomes) = {} THEN probs = <<>>
            ELSE probs = MarketProbs(first.outcomes)

-----------------------------------------------------------------------------
(* fetch_odds                                                              *)

(* A credential is a module global read from the environment at import.    *)
(* env is the set of credentials whose value is truthy: one that is unset  *)
(* (None) or set to the empty string is not in env.                        *)
KeyNames ==
    {"ODDS_API_KEY", "API_FOOTBALL_KEY", "FOOTBALL_DATA_API_KEY",
     "API_TENNIS_KEY", "THESPORTSDB_API_KEY"}

(* A parsed JSON value is                                                  *)
(*   [type |-> "list", items |-> <<...>>]   an array                       *)
(*   [type |-> "object", ...]               an object (a dict)             *)
(*   [type |-> "null"]                      null (None)                    *)
(* and Malformed stands for a body on which r.json() raises.               *)
EmptyList  == [type |-> "list", items |-> <<>>]
ListOf(xs) == [type |-> "list", items |-> xs]
JsonNull   == [type |-> "null"]
Malformed  == [type |-> "malformed"]
NoValue    == [type |-> "unset"]

(* What the provider does with one request:                                *)
(*   [kind |-> "error", why |-> w]   requests.get raises (timeout, DNS,    *)
(*                                   connection refused)                   *)
(*   [kind |-> "response", status |-> n, body |-> b]                       *)
NoRequest      == [kind |-> "none"]
HttpError(w)   == [kind |-> "error", why |-> w]
Response(n, b) == [kind |-> "response", status |-> n, body |-> b]

Warning(msg) == [level |-> "warning", msg |-> msg]
ErrorLog(msg) == [level |-> "error", msg |-> msg]
InfoLog(msg) == [level |-> "info", msg |-> msg]

\* Whether a statement of the try block of fetch_odds raises: requests.get
\* itself, or r.json() on a 200 response whose body does not parse.
FetchOddsTryRaises(resp) ==
    \/ resp.kind = "error"
    \/ resp.kind = "response" /\ resp.status = 200 /\ resp.body = Malformed

\* fetch_odds(sport_key) with the credentials keys, when the provider
\* answers resp: the returned value, the records logged, whether an
\* exception leaves the function, and the number of requests sent.
fetch_odds(keys, resp) ==
    IF "ODDS_API_KEY" \notin keys
    THEN \* if not ODDS_API_KEY: return []
         [ret |-> EmptyList, log |-> <<>>, raised |-> FALSE, requests |-> 0]
    ELSE IF FetchOddsTryRaises(resp)
    THEN \* except Exception as e: logger.warning(...); return []
         [ret |-> EmptyList, log |-> <<Warning("Error fetching odds")>>,
          raised |-> FALSE, requests |-> 1]
    ELSE IF resp.status # 200
    THEN [ret |-> EmptyList, log |-> <<Warning("Odds API returned status")>>,
          raised |-> FALSE, requests |-> 1]
    ELSE \* return r.json()
         [ret |-> resp.body, log |-> <<>>, raised |-> FALSE, requests |-> 1]

-----------------------------------------------------------------------------
(* Arguments and specification of the fetch_odds calls                     *)

SportKeys == {"soccer", "tennis", "mma_mixed_martial_arts"}

Statuses == {200, 204, 401, 404, 429, 500}

\* One well-formed odds entry, as the elements of a listing.
ColombiaBrazilEntry ==
    [home_team |-> <<"C","o","l","o","m","b","i","a">>,
     away_team |-> <<"B","r","a","z","i","l">>,
     commence_time |-> TimeAt(0)]

\* Bodies: one that does not parse, [], a listing of one entry, an object
\* (the provider's error message) and null.
Bodies ==
    {Malformed, EmptyList, ListOf(<<ColombiaBrazilEntry>>),
     [type |-> "object"], JsonNull}

HttpOutcomes ==
    {HttpError("timeout"), HttpError("network")}
        \cup {Response(n, b) : n \in Statuses, b \in Bodies}

InitFetch ==
    /\ impl \in Impls
    /\ pc = "call"
    /\ fn = "none"
    /\ env \in SUBSET {"ODDS_API_KEY"}
    /\ sport_key \in SportKeys
    /\ http \in HttpOutcomes
    /\ odds = NoValue
    /\ log = <<>>
    /\ raised = FALSE
    /\ NameIdle /\ FindIdle /\ ProbsIdle
    /\ BatchIdle /\ ReportIdle /\ ChunkIdle

\* odds = fetch_odds(sport_key)
CallFetchOdds ==
    /\ pc = "call"
    /\ pc' = "done"
    /\ fn' = "fetch_odds"
    /\ LET r == fetch_odds(env, http)
       IN  /\ odds' = r.ret
           /\ log' = log \o r.log
           /\ raised' = r.raised
    /\ UNCHANGED <<impl, helperVars, env, sport_key, http, payload, res,
                   kickoff_dt, lookups, calls, sections, out, text, start,
                   parts>>

NextFetch == CallFetchOdds

SpecFetch == InitFetch /\ [][NextFetch]_vars

-----------------------------------------------------------------------------
(* Claims about fetch_odds                                                 *)

FetchDone == pc = "done" /\ fn = "fetch_odds"

HasWarning == \E i \in 1..Len(log) : log[i].level = "warning"

MissingCredential == "ODDS_API_KEY" \notin env

\* One of the four failures of the claim happened to the call.
FetchFailed ==
    \/ MissingCredential
    \/ http.kind = "error"
    \/ http.kind = "response" /\ http.status # 200
    \/ http.kind = "response" /\ http.body = Malformed

\* C11: fetch_odds never raises to its caller, and on a missing credential,
\* a non-success status, a timeout or network error, or a malformed JSON
\* body it returns the empty sequence and logs a warning.
C11_FailSoftWithWarning ==
    FetchDone =>
        /\ ~raised
        /\ FetchFailed => (odds = EmptyList /\ HasWarning)

-----------------------------------------------------------------------------
(* get_football_matches (main.py): the loop over the fixtures              *)

\* The literal of FIFA_TOP20.
FIFA_TOP20_literal ==
    { <<"a","r","g","e","n","t","i","n","a">>,
      <<"f","r","a","n","c","i","a">>,
      <<"i","n","g","l","a","t","e","r","r","a">>,
      <<"b","é","l","g","i","c","a">>,
      <<"b","r","a","s","i","l">>,
      <<"p","a","í","s","e","s"," ","b","a","j","o","s">>,
      <<"p","o","r","t","u","g","a","l">>,
      <<"e","s","p","a","ñ","a">>,
      <<"i","t","a","l","i","a">>,
      <<"c","r","o","a","c","i","a">>,
      <<"e","e",".","u","u",".">>,
      <<"c","o","l","o","m","b","i","a">>,
      <<"m","é","x","i","c","o">>,
      <<"m","a","r","r","u","e","c","o","s">>,
      <<"a","l","e","m","a","n","i","a">>,
      <<"s","u","i","z","a">>,
      <<"u","r","u","g","u","a","y">>,
      <<"d","i","n","a","m","a","r","c","a">>,
      <<"j","a","p","ó","n">>,
      <<"s","e","n","e","g","a","l">> }

\* FIFA_TOP20 = set(norm(x) for x in FIFA_TOP20)
FIFA_TOP20 == {norm(x) : x \in FIFA_TOP20_literal}

(* Values a feed can hold where the code expects something else:           *)
(*   PyInt       a number where a name is expected: it is truthy and has   *)
(*               no .lower(), so norm raises AttributeError on it;         *)
(*   NotARecord  an element of the odds listing that is not a dict (a      *)
(*               string, a number, null): it has no .get().                *)
PyInt      == <<"<int>">>
NotARecord == [kind |-> "notdict"]

\* norm(s) raises.
NormRaises(s) == s = PyInt

\* The two statements of the scan's body before its name condition,
\* norm(ev.get("home_team","")) and norm(ev.get("away_team","")), raise.
EntryRaises(ev) ==
    \/ ev = NotARecord
    \/ NormRaises(ev.home_team)
    \/ NormRaises(ev.away_team)

\* "if not odds_list": None, [] and {} are falsy.
Falsy(v) == v = JsonNull \/ v = EmptyList \/ v = NoValue

\* The elements "for ev in odds_list" visits: the items of a list, and for
\* an object (a dict, here with one key) its keys, which are strings.
Iterated(v) ==
    IF v.type = "list" THEN v.items
    ELSE IF v.type = "object" THEN <<NotARecord>>
    ELSE <<>>

\* Whether an exception leaves "for ev in odds_list" from position i on:
\* the loop reaches an entry whose names cannot be read before it returns.
\* Nothing in find_odds_for_match catches it.
RECURSIVE ScanRaises(_, _, _, _, _)
ScanRaises(list, ta, tb, target, i) ==
    IF i > Len(list) THEN FALSE
    ELSE IF EntryRaises(list[i]) THEN TRUE
    ELSE IF Returns(list[i], ta, tb, target) THEN FALSE
    ELSE ScanRaises(list, ta, tb, target, i + 1)

\* Whether find_odds_for_match(odds_list, team_a, team_b, target_dt) raises.
FindRaises(v, a, b, target) ==
    /\ ~Falsy(v)
    /\ \/ NormRaises(a)
       \/ NormRaises(b)
       \/ ScanRaises(Iterated(v), norm(a), norm(b), target, 1)

\* The argument odds_to_probs gets for a matched entry.
EventOf(ev) == [kind |-> "event", bookmakers |-> ev.bookmakers]

\* strftime("%Y-%m-%d %H:%M") of an instant: the minute it falls in.
MinuteText(t) == [kind |-> "minute", minute |-> t.secs \div 60]

\* probs = odds_to_probs(matched) if matched else {}, for the entry that
\* find_odds_for_match returns when it does not raise.
LookupProbs(v, a, b, target) ==
    IF Falsy(v) THEN <<>>
    ELSE LET i == find_odds_for_match(Iterated(v), a, b, target)
         IN  IF i = 0 THEN <<>> ELSE odds_to_probs(EventOf(Iterated(v)[i]))

\* One pass of the body of "for f in payload.get('response', [])" of
\* main.get_football_matches: the records it appends.  Every exception,
\* from the fixture's own fields or from find_odds_for_match, is caught by
\* the body's "except Exception" and the fixture is left out.
MainFixtureRecords(f, v) ==
    IF NormRaises(f.home) \/ NormRaises(f.away) THEN <<>>
    ELSE IF ~(norm(f.home) \in FIFA_TOP20 \/ norm(f.away) \in FIFA_TOP20)
    THEN <<>>
    ELSE IF f.date.kind # "time" THEN <<>>
    ELSE IF FindRaises(v, f.home, f.away, f.date) THEN <<>>
    ELSE <<[home |-> f.home, away |-> f.away, kickoff |-> MinuteText(f.date),
            probs |-> LookupProbs(v, f.home, f.away, f.date)]>>

\* res after the loop over the fixtures from position i on.
RECURSIVE MainFootballLoop(_, _, _)
MainFootballLoop(fixtures, v, i) ==
    IF i > Len(fixtures) THEN <<>>
    ELSE MainFixtureRecords(fixtures[i], v) \o MainFootballLoop(fixtures, v, i + 1)

-----------------------------------------------------------------------------
(* Arguments and specification of the loop of get_football_matches         *)

\* Longest fixture listing and longest odds listing.
MaxFixtures == 2
MaxOddsEntries == 2

Colombia == <<"C","o","l","o","m","b","i","a">>
Brasil   == <<"B","r","a","s","i","l">>
Mexico   == <<"M","é","x","i","c","o">>
Chile    == <<"C","h","i","l","e">>
Peru     == <<"P","e","r","u">>

\* Two fixtures with a team of the roster and one without.
Fixtures ==
    { [home |-> Colombia, away |-> Brasil, date |-> TimeAt(0)],
      [home |-> Chile, away |-> Mexico, date |-> TimeAt(7200)],
      [home |-> Chile, away |-> Peru, date |-> TimeAt(0)] }

H2HBookmakers(outcomes) ==
    <<[markets |-> <<[key |-> "h2h", outcomes |-> outcomes]>>]>>

\* Well-formed entries for the two roster fixtures.
GoodEntries ==
    { [home_team |-> Brasil, away_team |-> Colombia,
       commence_time |-> TimeAt(3600), bookmakers |-> H2HBookmakers(SkewOutcomes)],
      [home_team |-> Chile, away_team |-> Mexico,
       commence_time |-> TimeAt(7200), bookmakers |-> H2HBookmakers(EvenOutcomes)] }

\* Malformed entries: not a dict; a number as home_team; no field at all;
\* a commence_time that is not an ISO string; a bookmaker that is not a dict.
BadEntries ==
    { NotARecord,
      [home_team |-> PyInt, away_team |-> Brasil,
       commence_time |-> TimeAt(3600), bookmakers |-> H2HBookmakers(SkewOutcomes)],
      [home_team |-> <<>>, away_team |-> <<>>,
       commence_time |-> NoTime, bookmakers |-> <<>>],
      [home_team |-> Colombia, away_team |-> Brasil,
       commence_time |-> BadTime, bookmakers |-> H2HBookmakers(SkewOutcomes)],
      [home_team |-> Colombia, away_team |-> Brasil,
       commence_time |-> TimeAt(3600), bookmakers |-> <<BadBookmaker>>] }

OddsValues ==
    {JsonNull, [type |-> "object"]}
        \cup {ListOf(es) :
                 es \in UNION {[1..k -> GoodEntries \cup BadEntries] :
                                  k \in 0..MaxOddsEntries}}

InitBatch ==
    /\ impl = "main"
    /\ pc = "call"
    /\ fn = "none"
    /\ payload \in UNION {[1..k -> Fixtures] : k \in 0..MaxFixtures}
    /\ odds \in OddsValues
    /\ res = <<>>
    /\ raised = FALSE
    /\ env = {} /\ sport_key = "" /\ http = NoRequest /\ log = <<>>
    /\ kickoff_dt = [kind |-> "unbound"] /\ lookups = <<>>
    /\ calls = [results |-> 0, odds |-> 0]
    /\ NameIdle /\ FindIdle /\ ProbsIdle /\ ReportIdle /\ ChunkIdle

\* The loop of main.get_football_matches over the fixtures of payload, with
\* odds_soccer = odds.
CallFootballLoop ==
    /\ pc = "call"
    /\ pc' = "done"
    /\ fn' = "get_football_matches"
    /\ res' = MainFootballLoop(payload, odds, 1)
    /\ raised' = FALSE
    /\ UNCHANGED <<impl, helperVars, env, sport_key, http, odds, log, payload,
                   kickoff_dt, lookups, calls, sections, out, text, start,
                   parts>>

NextBatch == CallFootballLoop

SpecBatch == InitBatch /\ [][NextBatch]_vars

-----------------------------------------------------------------------------
(* Claims about a malformed odds entry in the batch                        *)

BatchDone == pc = "done" /\ fn = "get_football_matches"

Qualifying(f) == norm(f.home) \in FIFA_TOP20 \/ norm(f.away) \in FIFA_TOP20

\* The roster-qualifying fixtures of the listing, in order.
QualifyingOf(fixtures) == SelectSeq(fixtures, Qualifying)

IsMalformed(ev) == ev \in BadEntries

HasMalformedEntry ==
    odds.type = "list" /\ \E i \in 1..Len(odds.items) : IsMalformed(odds.items[i])

\* C12: a malformed odds entry is skipped without aborting the batch: every
\* roster-qualifying fixture of the listing still gets its match record, in
\* the listing's order (at worst with empty probabilities); no fixture is
\* dropped and no exception leaves the function.
C12_MalformedEntrySkipped ==
    (BatchDone /\ HasMalformedEntry) =>
        /\ ~raised
        /\ Len(res) = Len(QualifyingOf(payload))
        /\ \A i \in 1..Len(res) :
              /\ res[i].home = QualifyingOf(payload)[i].home
              /\ res[i].away = QualifyingOf(payload)[i].away

-----------------------------------------------------------------------------
(* The loops of the other category functions                               *)

(* The parsed body of a results provider is a JSON value.  An object that  *)
(* holds the listing the function reads ("matches", "response", "data",    *)
(* "events") is [type |-> "object", listing |-> <<...>>]; one without that *)
(* key is [type |-> "object"].                                             *)
ObjectWith(items) == [type |-> "object", listing |-> items]

\* payload.get(<key>, []): the listing, [] when the key is absent.
Listing(p) == IF "listing" \in DOMAIN p THEN p.listing ELSE <<>>

\* payload.get raises AttributeError when the body is no object (a list,
\* null).  The call sits outside every try block.
PayloadRaises(p) == p.type # "object"

Unbound == [kind |-> "unbound"]

\* fetch_football_data_matches, lines 137-142: kickoff_dt after the inner
\* try of a match whose utcDate is d.  When d is absent or does not parse,
\* .replace or fromisoformat raises before the assignment and kickoff_dt
\* keeps the value it had: the one of an earlier match, or none at all.
FdKickoff(d, kdt) == IF d.kind = "time" THEN d ELSE kdt

\* kickoff_txt of the same lines: the formatted time, or utcDate as it came.
FdKickoffText(d) ==
    IF d.kind = "time" THEN MinuteText(d) ELSE [kind |-> "raw", value |-> d]

\* A match reaches line 150, the call of find_odds_for_match.
FdReachesLookup(m) ==
    /\ m # NotARecord
    /\ ~NormRaises(m.home)
    /\ ~NormRaises(m.away)
    /\ (norm(m.home) \in FIFA_TOP20 \/ norm(m.away) \in FIFA_TOP20)

\* kickoff_dt after the body ran for match m.
FdNextKickoff(m, kdt) ==
    IF m = NotARecord THEN kdt ELSE FdKickoff(m.utcDate, kdt)

\* The records one pass of the body of fetch_football_data_matches appends.
\* Reading kickoff_dt while it is unbound raises UnboundLocalError; that and
\* every other exception ends in the body's "except Exception: continue".
FdRecords(m, kdt, v) ==
    IF ~FdReachesLookup(m) THEN <<>>
    ELSE LET t == FdKickoff(m.utcDate, kdt)
         IN  IF t = Unbound THEN <<>>
             ELSE IF FindRaises(v, m.home, m.away, t) THEN <<>>
             ELSE <<[home |-> m.home, away |-> m.away,
                     kickoff |-> FdKickoffText(m.utcDate),
                     probs |-> LookupProbs(v, m.home, m.away, t),
                     competition |-> m.competition]>>

\* res after "for m in payload.get('matches', [])" from position i on, when
\* kickoff_dt holds kdt.
RECURSIVE FdLoop(_, _, _, _)
FdLoop(matches, kdt, v, i) ==
    IF i > Len(matches) THEN <<>>
    ELSE FdRecords(matches[i], kdt, v)
            \o FdLoop(matches, FdNextKickoff(matches[i], kdt), v, i + 1)

\* The records one pass of the body of fetch_api_sports_fixtures appends.
ApiSportsRecords(f, v) ==
    IF f = NotARecord THEN <<>>
    ELSE IF ~f.home_national /\ ~f.away_national THEN <<>>
    ELSE IF NormRaises(f.home_country) \/ NormRaises(f.away_country) THEN <<>>
    ELSE IF norm(f.home_country) \notin FIFA_TOP20
            /\ norm(f.away_country) \notin FIFA_TOP20 THEN <<>>
    ELSE IF f.date.kind # "time" THEN <<>>
    ELSE IF FindRaises(v, f.home, f.away, f.date) THEN <<>>
    ELSE <<[home |-> f.home, away |-> f.away, kickoff |-> MinuteText(f.date),
            probs |-> LookupProbs(v, f.home, f.away, f.date)]>>

RECURSIVE ApiSportsLoop(_, _, _)
ApiSportsLoop(fixtures, v, i) ==
    IF i > Len(fixtures) THEN <<>>
    ELSE ApiSportsRecords(fixtures[i], v) \o ApiSportsLoop(fixtures, v, i + 1)

\* get_tennis_matches: "tennis_in_top10(p1) or tennis_in_top10(p2)" raises.
TennisFilterRaises(m) ==
    \/ NormRaises(m.p1)
    \/ ~tennis_in_top10(m.p1) /\ NormRaises(m.p2)

\* dt of get_tennis_matches: the instant of m's time, None when it is
\* absent or does not parse.
TennisTime(m) == IF m.time.kind = "time" THEN m.time ELSE NoTime

\* The records one pass of the body of get_tennis_matches appends; p1 and
\* p2 are the values of 'm.get("player1") or m.get("home") or ""' and of
\* its counterpart.
TennisRecords(m, v) ==
    IF m = NotARecord THEN <<>>
    ELSE IF TennisFilterRaises(m) THEN <<>>
    ELSE IF ~(tennis_in_top10(m.p1) \/ tennis_in_top10(m.p2)) THEN <<>>
    ELSE IF FindRaises(v, m.p1, m.p2, TennisTime(m)) THEN <<>>
    ELSE <<[p1 |-> m.p1, p2 |-> m.p2,
            time |-> IF m.time.kind = "time" THEN MinuteText(m.time)
                     ELSE [kind |-> "unknown"],
            probs |-> LookupProbs(v, m.p1, m.p2, TennisTime(m))]>>

RECURSIVE TennisLoop(_, _, _)
TennisLoop(ms, v, i) ==
    IF i > Len(ms) THEN <<>>
    ELSE TennisRecords(ms[i], v) \o TennisLoop(ms, v, i + 1)

-----------------------------------------------------------------------------
(* get_ufc_events                                                          *)

(* An MMA odds entry is a record [sport_title, league, commence_time,      *)
(* home_team, away_team, bookmakers].  Instants count seconds from the     *)
(* local midnight that starts today, so today is day 0.                    *)
Today == 0
DayOf(t) == t.secs \div (60 * 60 * 24)

Ufc == <<"u","f","c">>

\* "for ev in events" raises at once when events is not iterable: fetch_odds
\* returned None because the 200 body was the JSON null.  The statement is
\* outside the loop's try.
UfcIterationRaises(v) == v = JsonNull

\* ev.get(key, ""): the value of a text field, "" when the key is absent.
TextField(ev, key) == IF key \in DOMAIN ev THEN ev[key] ELSE <<>>

\* The title filter of main.get_ufc_events.
MainIsUfc(ev) == Contains(Lower(TextField(ev, "sport_title")), Ufc)

\* The title filter of providers.get_ufc_events, which also reads league.
ProvidersIsUfc(ev) ==
    \/ Contains(Lower(TextField(ev, "sport_title")), Ufc)
    \/ Contains(norm(TextField(ev, "league")), Ufc)

IsUfc(ev) == IF impl = "main" THEN MainIsUfc(ev) ELSE ProvidersIsUfc(ev)

\* The inner "for mk in bm.get('markets', [])": the outcomes of the first
\* h2h market of bookmaker bm from market j on, cur when it has none.
RECURSIVE BookmakerOutcomes(_, _, _)
BookmakerOutcomes(bm, j, cur) ==
    IF j > Len(bm.markets) THEN cur
    ELSE IF bm.markets[j].key = "h2h" THEN bm.markets[j].outcomes
    ELSE BookmakerOutcomes(bm, j + 1, cur)

\* The outer "for bm in markets" from bookmaker i on: it stops after the
\* first bookmaker that leaves outcomes non-empty.
RECURSIVE UfcOutcomes(_, _, _)
UfcOutcomes(bms, i, cur) ==
    IF i > Len(bms) THEN cur
    ELSE LET o == BookmakerOutcomes(bms[i], 1, cur)
         IN  IF o # <<>> THEN o ELSE UfcOutcomes(bms, i + 1, o)

\* The same loop raises: it reaches a bookmaker that is no dict, whose
\* bm.get fails, before it stops.
RECURSIVE UfcOutcomesRaise(_, _, _)
UfcOutcomesRaise(bms, i, cur) ==
    IF i > Len(bms) THEN FALSE
    ELSE IF bms[i] = BadBookmaker THEN TRUE
    ELSE LET o == BookmakerOutcomes(bms[i], 1, cur)
         IN  IF o # <<>> THEN FALSE ELSE UfcOutcomesRaise(bms, i + 1, o)

\* o.get("name")
OutcomeName(o) == IF "name" \in DOMAIN o THEN o.name ELSE PyNone

\* f1 and f2: the names of the first two outcomes, else the entry's own
\* participants.
Fighters(ev) ==
    LET outcomes == UfcOutcomes(ev.bookmakers, 1, <<>>)
    IN  IF Len(outcomes) >= 2
        THEN <<OutcomeName(outcomes[1]), OutcomeName(outcomes[2])>>
        ELSE <<ev.home_team, ev.away_team>>

\* The records one pass of the body of the loop over the odds entries
\* appends.  An exception in the body, the one of a bookmaker that is no
\* dict included, leaves the entry out.
UfcRecords(ev) ==
    IF ev = NotARecord THEN <<>>
    ELSE IF ~IsUfc(ev) THEN <<>>
    ELSE IF ev.commence_time.kind # "time" THEN <<>>
    ELSE IF DayOf(ev.commence_time) # Today THEN <<>>
    ELSE IF UfcOutcomesRaise(ev.bookmakers, 1, <<>>) THEN <<>>
    ELSE <<[title |-> ev.sport_title, time |-> MinuteText(ev.commence_time),
            f1 |-> Fighters(ev)[1], f2 |-> Fighters(ev)[2],
            probs |-> odds_to_probs(EventOf(ev))]>>

RECURSIVE UfcLoop(_, _)
UfcLoop(evs, i) ==
    IF i > Len(evs) THEN <<>>
    ELSE UfcRecords(evs[i]) \o UfcLoop(evs, i + 1)

\* s[:n]
Take(s, n) == SubSeq(s, 1, IF Len(s) < n THEN Len(s) ELSE n)

\* "return res[:5]" of main.get_ufc_events, "return res[:10]" of providers.
MainUfcLimit == 5
ProvidersUfcLimit == 10

\* fetch_thesportsdb_ufc_events: the record built from a listed event.
SportsDbRecords(e) ==
    IF e = NotARecord THEN <<>>
    ELSE <<[title |-> e.strEvent, time_raw |-> e.time_raw,
            f1 |-> e.strEvent, f2 |-> <<>>, probs |-> <<>>]>>

RECURSIVE SportsDbLoop(_, _)
SportsDbLoop(es, i) ==
    IF i > Len(es) THEN <<>>
    ELSE SportsDbRecords(es[i]) \o SportsDbLoop(es, i + 1)

\* providers.get_ufc_events, step 2: res after the loop over ts_events from
\* position i on.  An event whose normalised title is already in res is
\* left out.
RECURSIVE Complement(_, _, _)
Complement(acc, ts, i) ==
    IF i > Len(ts) THEN acc
    ELSE IF \E k \in 1..Len(acc) : norm(acc[k].title) = norm(ts[i].title)
    THEN Complement(acc, ts, i + 1)
    ELSE Complement(
            Append(acc, [title |-> ts[i].title,
                         time |-> [kind |-> "raw", value |-> ts[i].time_raw],
                         f1 |-> ts[i].f1, f2 |-> ts[i].f2,
                         probs |-> ts[i].probs]),
            ts, i + 1)

-----------------------------------------------------------------------------
(* The category functions: their requests and what they return             *)

(* One request to a results provider, as every category function makes it: *)
(*     if not <KEY>: return []                                             *)
(*     try: r = requests.get(...); if r.status_code != 200: return []      *)
(*          payload = r.json()                                             *)
(*     except Exception: return []                                         *)
(* The outcome says whether the function goes on (ok), the parsed body,    *)
(* and how many requests were sent.                                        *)
ResultsFetch(key, resp) ==
    IF key \notin env
    THEN [ok |-> FALSE, payload |-> NoValue, requests |-> 0]
    ELSE IF resp.kind = "error" \/ resp.status # 200 \/ resp.body = Malformed
    THEN [ok |-> FALSE, payload |-> NoValue, requests |-> 1]
    ELSE [ok |-> TRUE, payload |-> resp.body, requests |-> 1]

\* calls after a function sent n requests to its results provider and
\* called fetch_odds k times.
Counted(n, k) == [results |-> calls.results + n, odds |-> calls.odds + k]

Sinner == <<"J","a","n","n","i","k"," ","S","i","n","n","e","r">>
Doe    == <<"J","o","h","n"," ","D","o","e">>
UfcTitle == <<"U","F","C">>

\* Listings of the results providers: a roster match and one outside it.
FdMatches ==
    { [home |-> Colombia, away |-> Brasil, utcDate |-> TimeAt(0),
       competition |-> "Friendlies"],
      [home |-> Chile, away |-> Peru, utcDate |-> TimeAt(0),
       competition |-> "Friendlies"] }

ApiSportsFixtures ==
    { [home |-> Colombia, away |-> Brasil, date |-> TimeAt(0),
       home_national |-> TRUE, away_national |-> TRUE,
       home_country |-> Colombia, away_country |-> Brasil],
      [home |-> Chile, away |-> Peru, date |-> TimeAt(0),
       home_national |-> TRUE, away_national |-> TRUE,
       home_country |-> Chile, away_country |-> Peru] }

TennisMatches ==
    { [p1 |-> Doe, p2 |-> Sinner, time |-> TimeAt(0)],
      [p1 |-> Doe, p2 |-> Doe, time |-> NoTime] }

SportsDbEvents ==
    { [strEvent |-> UfcTitle, time_raw |-> "2024-06-01 22:00:00"] }

\* Longest listing a results provider returns.
MaxListing == 1

ListingsOf(pool) == UNION {[1..k -> pool] : k \in 0..MaxListing}

\* What a results provider does with the request: a timeout, an error
\* status, a body that does not parse, null, an object without listing,
\* and an object with a listing.
ResultOutcomes(pool) ==
    {HttpError("timeout"), Response(500, Malformed), Response(200, Malformed),
     Response(200, JsonNull), Response(200, [type |-> "object"])}
        \cup {Response(200, ObjectWith(l)) : l \in ListingsOf(pool)}

UfcEntry ==
    [sport_title |-> UfcTitle, league |-> <<>>, commence_time |-> TimeAt(3600),
     home_team |-> Doe, away_team |-> Sinner,
     bookmakers |-> H2HBookmakers(SkewOutcomes)]

\* What the odds provider does with a request of fetch_odds.
OddsOutcomes ==
    {HttpError("timeout"), Response(200, JsonNull), Response(200, EmptyList),
     Response(200, ListOf(<<NotARecord>>)), Response(200, ListOf(<<UfcEntry>>))}
        \cup {Response(200, ListOf(<<e>>)) : e \in GoodEntries}

InitCategory ==
    /\ impl \in Impls
    /\ pc = "call"
    /\ fn = "none"
    /\ env \in SUBSET KeyNames
    /\ sport_key \in SportKeys
    /\ http = NoRequest
    /\ odds = NoValue
    /\ log = <<>>
    /\ raised = FALSE
    /\ payload = NoValue
    /\ res = <<>>
    /\ kickoff_dt = Unbound
    /\ lookups = <<>>
    /\ calls = [results |-> 0, odds |-> 0]
    /\ NameIdle /\ FindIdle /\ ProbsIdle /\ ReportIdle /\ ChunkIdle

MainFootballRecords(l, v) == MainFootballLoop(l, v, 1)
FdFootballRecords(l, v) == FdLoop(l, Unbound, v, 1)
ApiSportsFootballRecords(l, v) == ApiSportsLoop(l, v, 1)
TennisMatchRecords(l, v) == TennisLoop(l, v, 1)

\* The loop of the function called name_ over its listing l and the odds v.
LoopOf(name_, l, v) ==
    CASE name_ = "get_football_matches" -> MainFootballRecords(l, v)
      [] name_ = "fetch_football_data_matches" -> FdFootballRecords(l, v)
      [] name_ = "fetch_api_sports_fixtures" -> ApiSportsFootballRecords(l, v)
      [] name_ = "get_tennis_matches" -> TennisMatchRecords(l, v)

\* A football or tennis function from its first line to its return: the
\* results request, then, when a body was parsed, fetch_odds and the loop.
\* payload.get(...) in the loop's header raises when the body is no object.
\* next is where the caller goes on when the function returned nothing.
FetchAndLoop(key, pool, name_, next) ==
    \E resp \in ResultOutcomes(pool), oresp \in OddsOutcomes :
        LET r == ResultsFetch(key, resp)
            o == fetch_odds(env, oresp)
            found == IF r.ok /\ ~PayloadRaises(r.payload)
                     THEN LoopOf(name_, Listing(r.payload), o.ret)
                     ELSE <<>>
        IN  /\ fn' = name_
            /\ http' = resp
            /\ payload' = r.payload
            /\ odds' = IF r.ok THEN o.ret ELSE odds
            /\ log' = IF r.ok THEN log \o o.log ELSE log
            /\ calls' = Counted(r.requests, IF r.ok THEN 1 ELSE 0)
            /\ raised' = (r.ok /\ PayloadRaises(r.payload))
            /\ res' = found
            /\ pc' = IF raised' \/ found # <<>> THEN "done" ELSE next
            /\ UNCHANGED <<impl, helperVars, env, sport_key, kickoff_dt,
                           lookups, sections, out, text, start, parts>>

\* main.get_football_matches()
MainGetFootballMatches ==
    /\ impl = "main" /\ sport_key = "soccer" /\ pc = "call"
    /\ FetchAndLoop("API_FOOTBALL_KEY", ApiSportsFixtures,
                    "get_football_matches", "done")

\* providers.get_football_matches(), first half: fd = fetch_football_data_matches().
\* "if fd: return fd", otherwise the function goes on to the fallback.
FetchFootballDataMatches ==
    /\ impl = "providers" /\ sport_key = "soccer" /\ pc = "call"
    /\ FetchAndLoop("FOOTBALL_DATA_API_KEY", FdMatches,
                    "fetch_football_data_matches", "fallback")

\* providers.get_football_matches(), second half:
\* return fetch_api_sports_fixtures()
FetchApiSportsFixtures ==
    /\ impl = "providers" /\ sport_key = "soccer" /\ pc = "fallback"
    /\ FetchAndLoop("API_FOOTBALL_KEY", ApiSportsFixtures,
                    "fetch_api_sports_fixtures", "done")

\* get_tennis_matches(), the same in both files
GetTennisMatches ==
    /\ sport_key = "tennis" /\ pc = "call"
    /\ FetchAndLoop("API_TENNIS_KEY", TennisMatches,
                    "get_tennis_matches", "done")

\* get_ufc_events() up to the end of the loop over the odds entries: all of
\* main.get_ufc_events, which returns res[:5], and step 1 of
\* providers.get_ufc_events, which goes on to TheSportsDB.
GetUfcEventsFromOdds ==
    /\ sport_key = "mma_mixed_martial_arts" /\ pc = "call"
    /\ \E oresp \in OddsOutcomes :
        LET o == fetch_odds(env, oresp)
            found == IF UfcIterationRaises(o.ret) THEN <<>>
                     ELSE UfcLoop(Iterated(o.ret), 1)
        IN  /\ fn' = "get_ufc_events"
            /\ http' = oresp
            /\ odds' = o.ret
            /\ log' = log \o o.log
            /\ calls' = Counted(0, 1)
            /\ raised' = UfcIterationRaises(o.ret)
            /\ res' = IF impl = "main" THEN Take(found, MainUfcLimit) ELSE found
            /\ pc' = IF raised' \/ impl = "main" THEN "done" ELSE "complement"
    /\ UNCHANGED <<impl, helperVars, env, sport_key, payload, kickoff_dt,
                   lookups, sections, out, text, start, parts>>

\* providers.get_ufc_events(), step 2: ts_events =
\* fetch_thesportsdb_ufc_events(), the loop that adds the events not yet in
\* res, and "return res[:10]".  payload.get("events") is outside every try.
ComplementWithSportsDb ==
    /\ impl = "providers" /\ sport_key = "mma_mixed_martial_arts"
    /\ pc = "complement"
    /\ \E resp \in ResultOutcomes(SportsDbEvents) :
        LET r == ResultsFetch("THESPORTSDB_API_KEY", resp)
            ts == IF r.ok /\ ~PayloadRaises(r.payload)
                  THEN SportsDbLoop(Listing(r.payload), 1)
                  ELSE <<>>
        IN  /\ http' = resp
            /\ payload' = r.payload
            /\ calls' = Counted(r.requests, 0)
            /\ raised' = (r.ok /\ PayloadRaises(r.payload))
            /\ res' = IF raised' THEN res
                      ELSE Take(Complement(res, ts, 1), ProvidersUfcLimit)
    /\ pc' = "done"
    /\ UNCHANGED <<impl, fn, helperVars, env, sport_key, odds, log,
                   kickoff_dt, lookups, sections, out, text, start, parts>>

NextCategory ==
    \/ MainGetFootballMatches
    \/ FetchFootballDataMatches
    \/ FetchApiSportsFixtures
    \/ GetTennisMatches
    \/ GetUfcEventsFromOdds
    \/ ComplementWithSportsDb

SpecCategory == InitCategory /\ [][NextCategory]_vars

-----------------------------------------------------------------------------
(* Claims about the requests of a category                                 *)

\* C13: in one report generation a category sends at most one request to a
\* results provider and calls fetch_odds at most once: along every execution
\* of get_football_matches, get_tennis_matches and get_ufc_events neither
\* count ever exceeds one.
C13_AtMostOneFetchEach == calls.results <= 1 /\ calls.odds <= 1

-----------------------------------------------------------------------------
(* build_report_text                                                       *)

(* In a match record handed to the report, probs is a dict in insertion    *)
(* order: a sequence of items [key, value, quoted_for].  key is the        *)
(* outcome's name as the bookmaker quotes it, value the percentage in      *)
(* tenths, and quoted_for says which outcome of the event the bookmaker    *)
(* means by it: "first" (home / p1), "second" (away / p2) or "draw".  The  *)
(* code never sees quoted_for.                                             *)
Item(k, v, w) == [key |-> k, value |-> v, quoted_for |-> w]

\* The text after the kickoff time on a match line.
NoProbText == [text |-> "empty"]
ProbText(a, b) == [text |-> "probs", first |-> a, second |-> b]

\* The last of the positions hits, those of the items whose key passes a
\* line's test, 0 for None: the loop "for k, v in probs.items(): if <test>:
\* x = v" keeps the last one.
LastWhere(hits) ==
    IF hits = {} THEN 0 ELSE CHOOSE i \in hits : \A j \in hits : j <= i

\* The positions of the two values a line prints, <<0, 0>> when it prints
\* none: both found by the tests, else the first two items when there are
\* two ("fallback: first two keys").
ChosenItems(items, first_hits, second_hits) ==
    LET i == LastWhere(first_hits)
        j == LastWhere(second_hits)
    IN  IF i # 0 /\ j # 0 THEN <<i, j>>
        ELSE IF Len(items) >= 2 THEN <<1, 2>>
        ELSE <<0, 0>>

TextOf(items, chosen) ==
    IF chosen[1] = 0 \/ chosen[2] = 0 THEN NoProbText
    ELSE ProbText(items[chosen[1]].value, items[chosen[2]].value)

\* Lines 325-343: the items a football line prints.
FootballChosen(m) ==
    LET IsHome(k) == norm(k) = norm(m.home)
        IsAway(k) == norm(k) = norm(m.away)
        items == m.probs
    IN  IF items = <<>> THEN <<0, 0>>
        ELSE ChosenItems(items,
                         {i \in 1..Len(items) : IsHome(items[i].key)},
                         {i \in 1..Len(items) : IsAway(items[i].key)})

\* Lines 354-375: the items a tennis line prints.  Nothing is printed when
\* the first key is None or "".
TennisChosen(t) ==
    LET IsP1(k) == /\ tennis_in_top10(k) /\ tennis_in_top10(t.p1)
                   /\ Contains(norm(t.p1), norm(k))
        IsP2(k) == /\ tennis_in_top10(k) /\ tennis_in_top10(t.p2)
                   /\ Contains(norm(t.p2), norm(k))
    IN  IF t.probs = <<>> THEN <<0, 0>>
        ELSE IF ~Truthy(t.probs[1].key) THEN <<0, 0>>
        ELSE ChosenItems(t.probs,
                         {i \in 1..Len(t.probs) : IsP1(t.probs[i].key)},
                         {i \in 1..Len(t.probs) : IsP2(t.probs[i].key)})

\* Lines 386-391: the items a UFC line prints.
UfcChosen(e) == IF Len(e.probs) >= 2 THEN <<1, 2>> ELSE <<0, 0>>

\* The line appended for one record of a category.
MatchLine(category, r) ==
    IF category = "football"
    THEN [kind |-> "match", category |-> category, a |-> r.home, b |-> r.away,
          when |-> r.kickoff, prob_text |-> TextOf(r.probs, FootballChosen(r))]
    ELSE IF category = "tennis"
    THEN [kind |-> "match", category |-> category, a |-> r.p1, b |-> r.p2,
          when |-> r.time, prob_text |-> TextOf(r.probs, TennisChosen(r))]
    ELSE [kind |-> "match", category |-> category, a |-> r.f1, b |-> r.f2,
          when |-> r.time, prob_text |-> TextOf(r.probs, UfcChosen(r))]

\* A report that asks for tennis before football.
SectionOrderTennisFirst == <<"tennis", "football", "mma">>

\* The order in which build_report_text calls the category functions and
\* appends their sections: get_football_matches, get_tennis_matches,
\* get_ufc_events.
SectionOrder == <<"football", "tennis", "mma">>

Heading(category) == [kind |-> "heading", category |-> category]

\* The lines of one section: the heading, one line per record or the line
\* that says there is nothing today, and an empty line.
SectionLines(category, records) ==
    <<Heading(category)>>
        \o (IF records # <<>>
            THEN [i \in 1..Len(records) |-> MatchLine(category, records[i])]
            ELSE <<[kind |-> "nothing_today", category |-> category]>>)
        \o <<[kind |-> "blank"]>>

TitleLine  == [kind |-> "title"]
FooterLine == [kind |-> "footer"]

-----------------------------------------------------------------------------
(* Arguments and specification of build_report_text                        *)

\* Most records a category function returns.
MaxRecords == 1

Draw     == <<"D","r","a","w">>
Brazil   == <<"B","r","a","z","i","l">>
Alcaraz  == <<"C","a","r","l","o","s"," ","A","l","c","a","r","a","z">>
JSinner_ == <<"J","."," ","S","i","n","n","e","r">>

\* Mappings for Colombia vs Brasil: none; the event's names in its order
\* and in the other order; with a draw; the away side spelled differently,
\* in the other order and with a draw; one outcome only.
FootballProbs ==
    { <<>>,
      <<Item(Colombia, 667, "first"), Item(Brasil, 333, "second")>>,
      <<Item(Brasil, 333, "second"), Item(Colombia, 667, "first")>>,
      <<Item(Colombia, 500, "first"), Item(Draw, 300, "draw"),
        Item(Brasil, 200, "second")>>,
      <<Item(Brazil, 333, "second"), Item(Colombia, 667, "first")>>,
      <<Item(Colombia, 500, "first"), Item(Draw, 300, "draw"),
        Item(Brazil, 200, "second")>>,
      <<Item(Brasil, 1000, "second")>> }

FootballRecords ==
    {[home |-> Colombia, away |-> Brasil, kickoff |-> MinuteText(TimeAt(0)),
      probs |-> p] : p \in FootballProbs}

\* Tennis records: a roster player second, in the mapping's order and in
\* the other; two roster players quoted by the names of the event and by
\* other spellings; no mapping.
TennisRecordPool ==
    { [p1 |-> Doe, p2 |-> Sinner, time |-> MinuteText(TimeAt(0)), probs |-> <<>>],
      [p1 |-> Doe, p2 |-> Sinner, time |-> MinuteText(TimeAt(0)),
       probs |-> <<Item(Doe, 300, "first"), Item(Sinner, 700, "second")>>],
      [p1 |-> Doe, p2 |-> Sinner, time |-> [kind |-> "unknown"],
       probs |-> <<Item(Sinner, 700, "second"), Item(Doe, 300, "first")>>],
      [p1 |-> Alcaraz, p2 |-> Sinner, time |-> MinuteText(TimeAt(0)),
       probs |-> <<Item(Sinner, 400, "second"), Item(Alcaraz, 600, "first")>>],
      [p1 |-> Alcaraz, p2 |-> JSinner_, time |-> MinuteText(TimeAt(0)),
       probs |-> <<Item(Sinner, 400, "second"), Item(Alcaraz, 600, "first")>>] }

UfcRecordPool ==
    { [title |-> UfcTitle, time |-> MinuteText(TimeAt(3600)), f1 |-> Doe,
       f2 |-> Sinner, probs |-> <<>>],
      [title |-> UfcTitle, time |-> MinuteText(TimeAt(3600)), f1 |-> Doe,
       f2 |-> Sinner,
       probs |-> <<Item(Doe, 250, "first"), Item(Sinner, 750, "second")>>] }

RecordPool(category) ==
    IF category = "football" THEN FootballRecords
    ELSE IF category = "tennis" THEN TennisRecordPool
    ELSE UfcRecordPool

(* What a category function does when build_report_text calls it: it       *)
(* returns a list of records ([] after any failed fetch as well as when    *)
(* nothing qualifies), or it raises, as the category functions do on a 200 *)
(* body of the wrong shape.                                                *)
Returned(records) == [kind |-> "returned", records |-> records]
Raised == [kind |-> "raised"]

CategoryOutcomes(category) ==
    {Raised}
        \cup {Returned(rs) :
                 rs \in UNION {[1..k -> RecordPool(category)] : k \in 0..MaxRecords}}

InitReport ==
    /\ impl = "main"
    /\ pc = SectionOrder[1]
    /\ fn = "build_report_text"
    /\ sections = <<>>
    /\ out = <<TitleLine>>
    /\ raised = FALSE
    /\ env = {} /\ sport_key = "" /\ http = NoRequest /\ odds = NoValue
    /\ log = <<>>
    /\ NameIdle /\ FindIdle /\ ProbsIdle /\ BatchIdle /\ ChunkIdle

\* Where build_report_text is after the section of a category.
AfterSection(category) ==
    LET k == CHOOSE i \in 1..Len(SectionOrder) : SectionOrder[i] = category
    IN  IF k = Len(SectionOrder) THEN "footer" ELSE SectionOrder[k + 1]

\* One of the three blocks of build_report_text: the call of the category's
\* function and the lines appended for what it returned.  Nothing catches
\* an exception of the function: it leaves build_report_text.
AppendSection(category) ==
    /\ pc = category
    /\ \E o \in CategoryOutcomes(category) :
          /\ sections' = Append(sections, [category |-> category, outcome |-> o])
          /\ IF o = Raised
             THEN /\ raised' = TRUE
                  /\ pc' = "done"
                  /\ out' = out
             ELSE /\ raised' = FALSE
                  /\ pc' = AfterSection(category)
                  /\ out' = out \o SectionLines(category, o.records)
    /\ UNCHANGED <<impl, fn, helperVars, env, sport_key, http, odds, log,
                   payload, res, kickoff_dt, lookups, calls, text, start, parts>>

AppendFootball == AppendSection(SectionOrder[1])
AppendTennis   == AppendSection(SectionOrder[2])
AppendUfc      == AppendSection(SectionOrder[3])

\* The footer, text = "\n".join(out) and return text: the report is the
\* lines of out.
RenderReport ==
    /\ pc = "footer"
    /\ pc' = "done"
    /\ out' = Append(out, FooterLine)
    /\ UNCHANGED <<impl, fn, helperVars, env, sport_key, http, odds, log,
                   raised, payload, res, kickoff_dt, lookups, calls, sections,
                   text, start, parts>>

NextReport == AppendFootball \/ AppendTennis \/ AppendUfc \/ RenderReport

SpecReport == InitReport /\ [][NextReport]_vars

-----------------------------------------------------------------------------
(* Claims about build_report_text                                          *)

ReportReturned == fn = "build_report_text" /\ pc = "done" /\ ~raised

IsHeading(l) == l.kind = "heading"

\* The categories of the headings of the report, in the report's order.
HeadingsOf(lines) ==
    LET hs == SelectSeq(lines, IsHeading)
    IN  [i \in 1..Len(hs) |-> hs[i].category]

\* The categories whose function has returned.
Fetched == {sections[i].category : i \in 1..Len(sections)}

\* C14: the report always holds the three sections in the order football,
\* tennis, mma, whatever each category's function returned, and all three
\* functions have returned before the report is rendered and returned.
C14_SectionsInFixedOrder ==
    /\ fn = "build_report_text" =>
          \E k \in 0..3 : HeadingsOf(out) = SubSeq(<<"football", "tennis", "mma">>, 1, k)
    /\ ReportReturned =>
          /\ HeadingsOf(out) = <<"football", "tennis", "mma">>
          /\ Fetched = {"football", "tennis", "mma"}
          /\ out[Len(out)] = FooterLine

\* A report was returned after football returned matches, tennis returned
\* nothing and mma returned an event.
C14_Witness ==
    /\ ReportReturned
    /\ Len(sections) = 3
    /\ sections[1].outcome.records # <<>>
    /\ sections[2].outcome.records = <<>>
    /\ sections[3].outcome.records # <<>>

\* The records the function of the k-th section returned.
RecordsOf(k) ==
    IF sections[k].outcome = Raised THEN <<>> ELSE sections[k].outcome.records

\* The match lines of the k-th section, in the report's order: the j-th is
\* the line of the j-th record.
MatchLinesOf(k) ==
    LET Mine(l) == l.kind = "match" /\ l.category = sections[k].category
    IN  SelectSeq(out, Mine)

\* C15: when a match record has no odds (an empty probability mapping), its
\* report line says explicitly that the probabilities are not available.
C15_NoOddsSaidExplicitly ==
    \A k \in 1..Len(sections) : \A j \in 1..Len(RecordsOf(k)) :
        RecordsOf(k)[j].probs = <<>> =>
            MatchLinesOf(k)[j].prob_text.text = "not available"

\* The value the mapping holds for the outcome quoted for a participant.
QuotedFor(items, who) ==
    LET hits == {i \in 1..Len(items) : items[i].quoted_for = who}
    IN  items[CHOOSE i \in hits : TRUE].value

\* C17: in every football or tennis line that shows probabilities, the first
\* percentage is the one of the outcome quoted for the first-listed
\* participant (home / p1) and the second the one of the second-listed
\* participant (away / p2), whatever the mapping's order, spelling or draw.
C17_PercentagesFollowParticipants ==
    \A k \in 1..Len(sections) : \A j \in 1..Len(RecordsOf(k)) :
        LET line == MatchLinesOf(k)[j]
            items == RecordsOf(k)[j].probs
        IN  (sections[k].category \in {"football", "tennis"}
                /\ line.prob_text.text = "probs") =>
                /\ line.prob_text.first = QuotedFor(items, "first")
                /\ line.prob_text.second = QuotedFor(items, "second")

-----------------------------------------------------------------------------
(* fetch_football_data_matches: the loop over the matches, pass by pass    *)

\* Longest listing of matches.
MaxMatches == 3

\* Matches of the roster with a utcDate, without one and with one that does
\* not parse, and matches outside the roster with and without a utcDate.
KickoffMatches ==
    { [home |-> Colombia, away |-> Brasil, utcDate |-> TimeAt(0),
       competition |-> "Friendlies"],
      [home |-> Chile, away |-> Mexico, utcDate |-> NoTime,
       competition |-> "Friendlies"],
      [home |-> Colombia, away |-> Brasil, utcDate |-> BadTime,
       competition |-> "Friendlies"],
      [home |-> Chile, away |-> Peru, utcDate |-> TimeAt(200000),
       competition |-> "Friendlies"],
      [home |-> Chile, away |-> Peru, utcDate |-> NoTime,
       competition |-> "Friendlies"] }

\* Odds listings of well-formed entries only.
KickoffOdds ==
    {EmptyList} \cup {ListOf(<<e>>) : e \in GoodEntries}

InitKickoff ==
    /\ impl = "providers"
    /\ pc = "loop"
    /\ fn = "fetch_football_data_matches"
    /\ payload \in UNION {[1..k -> KickoffMatches] : k \in 0..MaxMatches}
    /\ odds \in KickoffOdds
    /\ res = <<>>
    /\ kickoff_dt = Unbound
    /\ lookups = <<>>
    /\ raised = FALSE
    /\ env = {"FOOTBALL_DATA_API_KEY", "ODDS_API_KEY"}
    /\ sport_key = "soccer" /\ http = NoRequest /\ log = <<>>
    /\ calls = [results |-> 1, odds |-> 1]
    /\ NameIdle /\ FindIdle /\ ProbsIdle /\ ReportIdle /\ ChunkIdle

\* One pass of "for m in payload.get('matches', [])".  lookups gets one
\* entry per pass: whether the pass reached the call of find_odds_for_match
\* and, if so, the value of kickoff_dt it read for the target time.
FdPass ==
    /\ pc = "loop"
    /\ Len(lookups) < Len(payload)
    /\ LET m == payload[Len(lookups) + 1]
       IN  /\ kickoff_dt' = FdNextKickoff(m, kickoff_dt)
           /\ res' = res \o FdRecords(m, kickoff_dt, odds)
           /\ lookups' =
                 Append(lookups,
                        IF FdReachesLookup(m)
                        THEN [reached |-> TRUE,
                              target |-> FdKickoff(m.utcDate, kickoff_dt)]
                        ELSE [reached |-> FALSE])
    /\ UNCHANGED <<impl, pc, fn, helperVars, env, sport_key, http, odds, log,
                   raised, payload, calls, sections, out, text, start, parts>>

\* The loop is over: return res.
FdReturn ==
    /\ pc = "loop"
    /\ Len(lookups) = Len(payload)
    /\ pc' = "done"
    /\ UNCHANGED <<impl, fn, helperVars, pipelineVars>>

NextKickoff == FdPass \/ FdReturn

SpecKickoff == InitKickoff /\ [][NextKickoff]_vars

-----------------------------------------------------------------------------
(* Claims about the target time in fetch_football_data_matches             *)

\* The target time a match's own utcDate gives: its instant, and no target
\* time when utcDate is missing or does not parse.
OwnTarget(m) == IF m.utcDate.kind = "time" THEN m.utcDate ELSE NoTime

\* The roster matches among the first n of the listing.
RosterAmong(n) ==
    {i \in 1..n :
        norm(payload[i].home) \in FIFA_TOP20 \/ norm(payload[i].away) \in FIFA_TOP20}

\* C16: for every match of the listing the target time passed to
\* find_odds_for_match comes from that match's own utcDate; a match whose
\* utcDate is missing or unparseable is looked up with no target time,
\* never with the kickoff time of an earlier match, and is not dropped.
C16_TargetFromOwnUtcDate ==
    fn = "fetch_football_data_matches" =>
        /\ \A i \in 1..Len(lookups) :
              lookups[i].reached => lookups[i].target = OwnTarget(payload[i])
        /\ Len(res) = Cardinality(RosterAmong(Len(lookups)))

-----------------------------------------------------------------------------
(* chunk_message                                                           *)

(* chunk_message looks at nothing of its text but the length and the       *)
(* places of the newline characters, so a text is [len, newlines]: its     *)
(* length and the set of the indexes (from 0) that hold "\n".  A chunk     *)
(* text[a:b] is the slice [from |-> a, to |-> b].                          *)
TELEGRAM_MAX == 3900

Slice(a, b) == [from |-> a, to |-> b]

Min(a, b) == IF a < b THEN a ELSE b

\* text.rfind("\n", a, b): the last newline at an index in a..b-1, else -1.
RFindNewline(t, a, b) ==
    LET hits == {p \in t.newlines : a <= p /\ p < b}
    IN  IF hits = {} THEN -1 ELSE CHOOSE p \in hits : \A q \in hits : q <= p

\* A test that also breaks at a newline that is the chunk's first character.
BreakAtNewlineFromStart(nl, s) == nl >= s

\* "if nl > start": break at the newline.
BreakAtNewline(nl, s) == nl > s

-----------------------------------------------------------------------------
(* Arguments and specification of chunk_message                            *)

\* The texts are up to MaxSpans times TELEGRAM_MAX long, give or take two
\* characters, and hold up to MaxNewlines newlines.
MaxSpans == 3
MaxNewlines == 2

\* Lengths and newline places around the multiples of TELEGRAM_MAX.
TextLengths ==
    {n \in {k * TELEGRAM_MAX + d : k \in 0..MaxSpans, d \in {-1, 0, 1, 2}} : n >= 0}

NewlinePlaces ==
    {n \in {k * TELEGRAM_MAX + d : k \in 0..MaxSpans, d \in {-2, -1, 0, 1}} : n >= 0}

\* The newline sets of a text of n characters.
NewlineSets(n) ==
    {qs \in SUBSET {p \in NewlinePlaces : p < n} : Cardinality(qs) <= MaxNewlines}

Texts ==
    UNION {{[len |-> n, newlines |-> ps] : ps \in NewlineSets(n)} :
              n \in TextLengths}

InitChunk ==
    /\ impl = "main"
    /\ pc = "call"
    /\ fn = "chunk_message"
    /\ text \in Texts
    /\ start = 0
    /\ parts = <<>>
    /\ NameIdle /\ FindIdle /\ ProbsIdle /\ FetchIdle /\ BatchIdle /\ ReportIdle

\* Lines 69-72: a text that fits is returned as the only chunk; otherwise
\* parts = [], start = 0 and the loop begins.
ChunkEnter ==
    /\ pc = "call"
    /\ IF text.len <= TELEGRAM_MAX
       THEN pc' = "done" /\ parts' = <<Slice(0, text.len)>>
       ELSE pc' = "loop" /\ parts' = <<>>
    /\ start' = 0
    /\ UNCHANGED <<impl, fn, helperVars, env, sport_key, http, odds, log,
                   raised, payload, res, kickoff_dt, lookups, calls, sections,
                   out, text>>

\* One pass of "while start < len(text)".
ChunkPass ==
    /\ pc = "loop"
    /\ start < text.len
    /\ LET end == Min(text.len, start + TELEGRAM_MAX)
           nl  == RFindNewline(text, start, end)
       IN  IF end < text.len /\ BreakAtNewline(nl, start)
           THEN /\ parts' = Append(parts, Slice(start, nl))
                /\ start' = nl + 1
           ELSE /\ parts' = Append(parts, Slice(start, end))
                /\ start' = end
    /\ UNCHANGED <<impl, pc, fn, helperVars, env, sport_key, http, odds, log,
                   raised, payload, res, kickoff_dt, lookups, calls, sections,
                   out, text>>

\* The loop condition fails: return parts.
ChunkReturn ==
    /\ pc = "loop"
    /\ ~(start < text.len)
    /\ pc' = "done"
    /\ UNCHANGED <<impl, fn, helperVars, pipelineVars>>

NextChunk == ChunkEnter \/ ChunkPass \/ ChunkReturn

\* A call that has begun runs on: every enabled step is eventually taken.
SpecChunk == InitChunk /\ [][NextChunk]_vars /\ WF_vars(NextChunk)

-----------------------------------------------------------------------------
(* Claims about chunk_message                                              *)

ChunkDone == fn = "chunk_message" /\ pc = "done"

SliceLen(c) == c.to - c.from

\* Chunk i+1 takes up the text where chunk i stopped, or one character
\* later when that character is a newline.
Adjoins(i) ==
    \/ parts[i + 1].from = parts[i].to
    \/ /\ parts[i + 1].from = parts[i].to + 1
       /\ parts[i].to \in text.newlines

\* The chunks, one after the other, are the text without the newlines at
\* which it was split.
Rejoins ==
    /\ parts # <<>>
    /\ parts[1].from = 0
    /\ parts[Len(parts)].to = text.len
    /\ \A i \in 1..(Len(parts) - 1) : Adjoins(i)

ChunksFit ==
    \A i \in 1..Len(parts) :
        /\ SliceLen(parts[i]) >= 0
        /\ SliceLen(parts[i]) <= TELEGRAM_MAX

NoEmptyChunk == \A i \in 1..Len(parts) : SliceLen(parts[i]) > 0

\* C18: chunk_message terminates for every text, start growing on every
\* pass of the loop, and returns chunks of at most TELEGRAM_MAX characters,
\* none of them empty when the text is longer than TELEGRAM_MAX, which put
\* together give the text back but for the one newline dropped at each
\* newline split.
C18_ChunkMessageSplits ==
    /\ [](fn = "chunk_message" => ChunksFit)
    /\ []((fn = "chunk_message" /\ text.len > TELEGRAM_MAX) => NoEmptyChunk)
    /\ [](ChunkDone => Rejoins)
    /\ [][(pc = "loop" /\ pc' = "loop") => start' > start]_vars
    /\ <>(pc = "done")

\* A text was split once at a newline and once in the middle of a line.
C18_Witness ==
    /\ ChunkDone
    /\ text.len > TELEGRAM_MAX
    /\ \E i \in 1..(Len(parts) - 1) : parts[i + 1].from = parts[i].to + 1
    /\ \E i \in 1..(Len(parts) - 1) : parts[i + 1].from = parts[i].to

=============================================================================
